---- MODULE Spec2Model ----
(***************************************************************************)
(* A state-machine model of mozart2's boost environment                    *)
(* (vm/boostenv/main/boostenv.cc): the per-VM scheduling loop              *)
(* (BoostVM::run), the VM stream/port, cross-VM messages, monitors,        *)
(* termination, the two asio timers of each VM and the registry            *)
(* (BoostEnvironment).  Every VM has one thread; one more thread runs the  *)
(* shared io_service and executes the timer handlers.                      *)
(***************************************************************************)
EXTENDS Integers, Sequences, FiniteSets, TLC

\* ------------------------------------------------------------- bounds
MaxVMs == 2
MaxSends == 2
MaxKills == 2
MaxMonitors == 2
MaxBacklog == 1
MsgMonitors == 1
MaxValue == 1
MaxExitCode == 1

Ids == 1..MaxVMs
Values == 0..MaxValue
ExitCodes == 0..MaxExitCode
NoExit == -1
Directives == {"never", "now", "later", "laterPast"}

VARIABLES
  nextVMIdentifier, \* BoostEnvironment::_nextVMIdentifier
  aliveVMs,         \* BoostEnvironment::_aliveVMs
  vms,              \* BoostEnvironment::vms (a forward_list, newest first)
  exitCode,         \* NoExit, or the code std::exit was called with
  ioReturned,       \* io_service.run() has returned
  pc,               \* position of each VM's thread
  nextInvoke,       \* BoostVM::run: nextInvoke of the current iteration
  lock,             \* _conditionWorkToDoInVMMutex is held by the VM's own thread
  queue,            \* _vmEventsCallbacks
  terminated,       \* _terminated
  work,             \* _work is allocated (the io_service keep-alive)
  monitors,         \* _monitors
  tellIdx,          \* tellMonitors: index of the next monitor to tell
  asyncIONodeCount, \* _asyncIONodeCount
  headOfStream,     \* _headOfStream != nullptr
  stream,           \* _stream != nullptr
  cells,            \* the values bound into the stream so far, head first
  streamNil,        \* the stream's tail has been bound to nil
  preemptPending,   \* preemptionTimer has an outstanding async_wait
  preemptQueued,    \* expired preemption waits whose handler has not run yet
  alarmPending,     \* alarmTimer has an outstanding async_wait
  alarmQueued,      \* expired alarm waits whose handler has not run yet
  nSends,           \* messages pushed by sendToVMPort so far (bounded)
  kills,            \* per VM: termination requests pushed on its queue (bounded)
  nMonitors,        \* monitors registered so far (bounded)
  lastKill,         \* the exit code given to the last killVM that found its VM running
  lastRun,          \* per VM: the last event run from its queue
  termRuns,         \* per VM: times the body of terminate() ran
  closeCalls,       \* per VM: times terminate() called closeStream()
  posted,           \* per VM: "terminated" events posted by tellMonitors
  workDeletes,      \* per VM: times _work was deleted
  ranEvent,         \* per VM: an event was run in the current loop iteration
  lastOp            \* the call this step made (stream or registry) and its outcome

envVars == <<nextVMIdentifier, aliveVMs, vms, exitCode, ioReturned>>
loopVars == <<pc, nextInvoke, lock, queue, terminated, work, monitors, tellIdx>>
streamVars == <<asyncIONodeCount, headOfStream, stream, cells, streamNil>>
timerVars == <<preemptPending, preemptQueued, alarmPending, alarmQueued>>
countVars == <<nSends, kills, nMonitors, lastKill>>
ghostVars == <<lastRun, termRuns, closeCalls, posted, workDeletes, ranEvent>>
vars == <<envVars, loopVars, streamVars, timerVars, countVars, ghostVars,
         lastOp>>

Created == 1..(nextVMIdentifier - 1)
Live == exitCode = NoExit

\* ------------------------------------------------- external collaborators
\* pickle.pack / bootUnpickle: a value becomes a byte vector and back.
Encode(v) == <<v \div 16, v % 16>>
Decode(b) == b[1] * 16 + b[2]

IntVal(v) == [tag |-> "int", x |-> v]
TerminatedTuple(deadVM) == [tag |-> "terminated", x |-> deadVM]

\* The three kinds of closure that are pushed on _vmEventsCallbacks.
\* The other fields are bookkeeping: sent is the value the sender passed, from
\* the sender, seq the event's place in the order of all pushes, and ok tells
\* whether the target had not terminated and had its stream open when the
\* event was pushed.
NoEvent ==
  [kind |-> "none", buf |-> <<>>, dead |-> 0, sent |-> 0, from |-> 0, seq |-> 0,
   ok |-> FALSE]
TermEvent == [NoEvent EXCEPT !.kind = "term"]
BufEvent(b, v, from) == [NoEvent EXCEPT !.kind = "buf", !.buf = b, !.sent = v, !.from = from]
DeadEvent(d) == [NoEvent EXCEPT !.kind = "dead", !.dead = d]

\* ------------------------------------------------------------- stream
\* A mutant of streamAsked: getStream() never finds the stream asked for.
streamAskedNever(i) == FALSE

streamAsked(i) == ~headOfStream[i]
portClosed(i) == ~stream[i]
isRunning(i) == ~terminated[i]

\* sendToReadOnlyStream: bind the open tail to a new cell.
AppendCell(cs, c) == Append(cs, c)

\* receiveOnVMPort(UnstableNode): the cells after the call.
ReceiveNative(i, val, seq) ==
  IF portClosed(i) THEN cells[i]
  ELSE AppendCell(cells[i], [val |-> val, seq |-> seq, from |-> 0])

\* A mutant of ReceiveBuffer: the test of portClosed() is missing.
ReceiveBufferUnchecked(i, ev) ==
  AppendCell(cells[i], [val |-> IntVal(Decode(ev.buf)), seq |-> ev.seq,
                        from |-> ev.from])

\* A mutant of ReceiveBuffer: the test of portClosed() is inverted.
ReceiveBufferInverted(i, ev) ==
  IF ~portClosed(i) THEN cells[i]
  ELSE AppendCell(cells[i], [val |-> IntVal(Decode(ev.buf)), seq |-> ev.seq,
                          from |-> ev.from])

\* receiveOnVMPort(std::vector<unsigned char>*): the cells after the call.
ReceiveBuffer(i, ev) ==
  IF portClosed(i) THEN cells[i]
  ELSE AppendCell(cells[i], [val |-> IntVal(Decode(ev.buf)), seq |-> ev.seq,
                          from |-> ev.from])

\* A mutant of CloseEffective: closeStream() without its guard.
CloseEffectiveAlways(i) == TRUE

\* closeStream() takes effect only on a stream that was asked for and is open.
CloseEffective(i) == streamAsked(i) /\ ~portClosed(i)

\* postVMEvent: push under the target's queue mutex, then notify_all.
CanPost(to) == ~lock[to]
SumPosted[k \in 0..MaxVMs] == IF k = 0 THEN 0 ELSE posted[k] + SumPosted[k - 1]
SumKills[k \in 0..MaxVMs] == IF k = 0 THEN 0 ELSE kills[k] + SumKills[k - 1]
nKills == SumKills[MaxVMs]
Pushes == nSends + nKills + SumPosted[MaxVMs]
PostedQueue(to, ev) ==
  Append(queue[to], [ev EXCEPT !.seq = Pushes + 1, !.ok = ~terminated[to] /\ stream[to]])
Notified(to) == IF pc[to] = "waiting" THEN "woken" ELSE pc[to]

\* A mutant of FrontEvent: the newest event is run first.
BackEvent(q) == q[Len(q)]

\* The event the drain loop runs next: _vmEventsCallbacks.front().
FrontEvent(q) == Head(q)
PopEvent(q) == Tail(q)

NoOp == [op |-> "none", vm |-> 0, raised |-> FALSE, arg |-> 0, list |-> <<>>]

\* ------------------------------------------------------------- Init
\* The state after BoostEnvironment's constructor: no VM yet.
Init ==
  /\ nextVMIdentifier = 1
  /\ aliveVMs = 0
  /\ vms = <<>>
  /\ exitCode = NoExit
  /\ ioReturned = FALSE
  /\ pc = [i \in Ids |-> "none"]
  /\ nextInvoke = [i \in Ids |-> "now"]
  /\ lock = [i \in Ids |-> FALSE]
  /\ queue = [i \in Ids |-> <<>>]
  /\ terminated = [i \in Ids |-> FALSE]
  /\ work = [i \in Ids |-> FALSE]
  /\ monitors = [i \in Ids |-> <<>>]
  /\ tellIdx = [i \in Ids |-> 0]
  /\ asyncIONodeCount = [i \in Ids |-> 0]
  /\ headOfStream = [i \in Ids |-> FALSE]
  /\ stream = [i \in Ids |-> FALSE]
  /\ cells = [i \in Ids |-> <<>>]
  /\ streamNil = [i \in Ids |-> FALSE]
  /\ preemptPending = [i \in Ids |-> FALSE]
  /\ preemptQueued = [i \in Ids |-> 0]
  /\ alarmPending = [i \in Ids |-> FALSE]
  /\ alarmQueued = [i \in Ids |-> 0]
  /\ nSends = 0 /\ nMonitors = 0
  /\ kills = [i \in Ids |-> 0]
  /\ lastKill = NoExit
  /\ lastRun = [i \in Ids |-> NoEvent]
  /\ termRuns = [i \in Ids |-> 0]
  /\ closeCalls = [i \in Ids |-> 0]
  /\ posted = [i \in Ids |-> 0]
  /\ workDeletes = [i \in Ids |-> 0]
  /\ ranEvent = [i \in Ids |-> FALSE]
  /\ lastOp = NoOp

\* ------------------------------------------------------ the registry
\* BoostEnvironment::addVM with the BoostVM constructor it runs: the first VM
\* is created by the host, the others by a program running in some VM.
addVM ==
  /\ Live
  /\ nextVMIdentifier <= MaxVMs
  /\ (nextVMIdentifier = 1 \/ \E c \in Created : pc[c] = "running")
  /\ LET id == nextVMIdentifier IN
       /\ nextVMIdentifier' = id + 1
       /\ vms' = <<id>> \o vms
       /\ aliveVMs' = aliveVMs + 1
       /\ work' = [work EXCEPT ![id] = TRUE]
       /\ headOfStream' = [headOfStream EXCEPT ![id] = TRUE]
       /\ stream' = [stream EXCEPT ![id] = TRUE]
       /\ pc' = [pc EXCEPT ![id] = "start"]
  /\ lastOp' = NoOp
  /\ UNCHANGED <<exitCode, ioReturned, nextInvoke, lock, queue, terminated,
                 monitors, tellIdx, asyncIONodeCount, cells, streamNil,
                 timerVars, countVars, ghostVars>>

\* run(), lines 78-87, at the top of the loop: publish the time and arm the
\* preemption timer (a wait still outstanding is cancelled by the new expiry
\* time), then enter vm->run().
EnterStep(i) ==
  /\ preemptPending' = [preemptPending EXCEPT ![i] = TRUE]
  /\ ranEvent' = [ranEvent EXCEPT ![i] = FALSE]

\* BoostVM::start: the starter runs the VM, which enters run().
startVM(i) ==
  /\ Live /\ pc[i] = "start"
  /\ pc' = [pc EXCEPT ![i] = "running"]
  /\ EnterStep(i)
  /\ lastOp' = NoOp
  /\ UNCHANGED <<envVars, nextInvoke, lock, queue, terminated, work, monitors,
                 tellIdx, streamVars, preemptQueued, alarmPending, alarmQueued,
                 countVars, lastRun, termRuns, closeCalls, posted,
                 workDeletes>>

\* A mutant of startFails: the failing start gives up the keep-alive.
startFailsReleasesWork(i) ==
  /\ Live /\ pc[i] = "start"
  /\ pc' = [pc EXCEPT ![i] = "failed"]
  /\ work' = [work EXCEPT ![i] = FALSE]
  /\ lastOp' = NoOp
  /\ UNCHANGED <<envVars, nextInvoke, lock, queue, terminated, monitors,
                 tellIdx, streamVars, timerVars, countVars, ghostVars>>

\* BoostVM::start: the starter reports failure; the thread ends.
startFails(i) ==
  /\ Live /\ pc[i] = "start"
  /\ pc' = [pc EXCEPT ![i] = "failed"]
  /\ lastOp' = NoOp
  /\ UNCHANGED <<envVars, nextInvoke, lock, queue, terminated, work, monitors,
                 tellIdx, streamVars, timerVars, countVars, ghostVars>>

\* ------------------------------------------------- the scheduling loop
\* A mutant of NothingLeft: the test of _asyncIONodeCount is missing.
NothingLeftIgnoresIO(i, d) ==
  \/ ~isRunning(i)
  \/ (d = "never" /\ queue[i] = <<>>)

\* run(), lines 99-100: the test made under the queue mutex, d being the
\* directive vm->run() returned.
NothingLeft(i, d) ==
  \/ ~isRunning(i)
  \/ (d = "never" /\ asyncIONodeCount[i] = 0 /\ queue[i] = <<>>)

\* run(), lines 87-103: vm->run() returns directive d; the preemption timer is
\* cancelled (which removes an outstanding wait, not a handler already queued
\* for an expired one); the queue mutex is taken and the loop is left, the
\* mutex released, or the drain begins with the mutex held.
endStep(i, d) ==
  /\ Live /\ pc[i] = "running" /\ ~lock[i]
  /\ nextInvoke' = [nextInvoke EXCEPT ![i] = d]
  /\ preemptPending' = [preemptPending EXCEPT ![i] = FALSE]
  /\ lastOp' = NoOp
  /\ IF NothingLeft(i, d)
       THEN /\ pc' = [pc EXCEPT ![i] = "exit"]
            /\ UNCHANGED lock
       ELSE /\ pc' = [pc EXCEPT ![i] = "drain"]
            /\ lock' = [lock EXCEPT ![i] = TRUE]
  /\ UNCHANGED <<envVars, queue, terminated, work, monitors, tellIdx, streamVars,
                 preemptQueued, alarmPending, alarmQueued, countVars, lastRun,
                 termRuns, closeCalls, posted, workDeletes, ranEvent>>

\* A mutant of TerminateRuns: terminate() without its one-shot test.
TerminateRunsAlways(i) == TRUE

\* terminate(), line 241: the one-shot test.
TerminateRuns(i) == ~terminated[i]

\* terminate(), lines 241-244: if the flag is not set, set it, close the
\* stream and start telling the monitors (the thread is then at `telling`);
\* otherwise return at once (the thread continues at `next`, with queue q).
terminateBegin(i, telling, next, q) ==
  IF TerminateRuns(i)
    THEN /\ terminated' = [terminated EXCEPT ![i] = TRUE]
         /\ termRuns' = [termRuns EXCEPT ![i] = @ + 1]
         /\ closeCalls' = [closeCalls EXCEPT ![i] = @ + 1]
         /\ IF CloseEffective(i)
              THEN /\ asyncIONodeCount' = [asyncIONodeCount EXCEPT ![i] = @ - 1]
                   /\ stream' = [stream EXCEPT ![i] = FALSE]
                   /\ streamNil' = [streamNil EXCEPT ![i] = TRUE]
              ELSE UNCHANGED <<asyncIONodeCount, stream, streamNil>>
         /\ pc' = [pc EXCEPT ![i] = telling]
         /\ tellIdx' = [tellIdx EXCEPT ![i] = 1]
         /\ UNCHANGED queue
    ELSE /\ pc' = [pc EXCEPT ![i] = next]
         /\ queue' = [queue EXCEPT ![i] = q]
         /\ UNCHANGED <<terminated, termRuns, closeCalls, asyncIONodeCount,
                        stream, streamNil, tellIdx>>

\* A mutant of AfterEvent: the directive vm->run() returned is kept.
AfterEventKeeps(d) == d

\* run(), line 111: after an event, nextInvoke = recInvokeAgainNow.
AfterEvent(d) == "now"

\* run(), lines 106-112: run the front event, pop it, ask for an immediate
\* invocation.  The event posted by requestTermination calls terminate(); it
\* is popped when terminate() has returned.
drainOne(i) ==
  /\ Live /\ pc[i] = "drain" /\ queue[i] # <<>>
  /\ LET ev == FrontEvent(queue[i]) IN
       /\ nextInvoke' = [nextInvoke EXCEPT ![i] = AfterEvent(@)]
       /\ lastRun' = [lastRun EXCEPT ![i] = ev]
       /\ ranEvent' = [ranEvent EXCEPT ![i] = TRUE]
       /\ IF ev.kind = "term"
            THEN /\ terminateBegin(i, "tellDrain", "drain", PopEvent(queue[i]))
                 /\ UNCHANGED cells
            ELSE /\ cells' = [cells EXCEPT ![i] =
                       IF ev.kind = "buf" THEN ReceiveBuffer(i, ev)
                       ELSE ReceiveNative(i, TerminatedTuple(ev.dead), ev.seq)]
                 /\ queue' = [queue EXCEPT ![i] = PopEvent(@)]
                 /\ UNCHANGED <<pc, terminated, termRuns, closeCalls,
                                asyncIONodeCount, stream, streamNil, tellIdx>>
  /\ lastOp' = NoOp
  /\ UNCHANGED <<envVars, lock, work, monitors, headOfStream, timerVars,
                 countVars, posted, workDeletes>>

\* run(), line 136: terminate() after the loop was left.
terminateAtExit(i) ==
  /\ Live /\ pc[i] = "exit"
  /\ terminateBegin(i, "tellExit", "done", queue[i])
  /\ lastOp' = NoOp
  /\ UNCHANGED <<envVars, nextInvoke, lock, work, monitors, headOfStream,
                 cells, timerVars, countVars, lastRun, posted, workDeletes, ranEvent>>

\* tellMonitors(), lines 233-237: post the "terminated" event to the next
\* monitor; postVMEvent needs the monitor's queue mutex.
tellOne(i) ==
  /\ Live /\ pc[i] \in {"tellDrain", "tellExit"}
  /\ tellIdx[i] <= Len(monitors[i])
  /\ LET m == monitors[i][tellIdx[i]] IN
       /\ CanPost(m)
       /\ queue' = [queue EXCEPT ![m] = PostedQueue(m, DeadEvent(i))]
       /\ pc' = [pc EXCEPT ![m] = Notified(m)]
  /\ tellIdx' = [tellIdx EXCEPT ![i] = @ + 1]
  /\ posted' = [posted EXCEPT ![i] = @ + 1]
  /\ lastOp' = NoOp
  /\ UNCHANGED <<envVars, nextInvoke, lock, terminated, work, monitors,
                 streamVars, timerVars, countVars, lastRun, termRuns, closeCalls,
                 workDeletes, ranEvent>>

\* terminate(), line 245, after tellMonitors() returned: delete _work.  In
\* the drain loop the terminate event is then popped (line 108).
terminateEnd(i) ==
  /\ Live /\ pc[i] \in {"tellDrain", "tellExit"}
  /\ tellIdx[i] > Len(monitors[i])
  /\ work' = [work EXCEPT ![i] = FALSE]
  /\ workDeletes' = [workDeletes EXCEPT ![i] = @ + 1]
  /\ IF pc[i] = "tellDrain"
       THEN /\ pc' = [pc EXCEPT ![i] = "drain"]
            /\ queue' = [queue EXCEPT ![i] = PopEvent(@)]
       ELSE /\ pc' = [pc EXCEPT ![i] = "done"]
            /\ UNCHANGED queue
  /\ lastOp' = NoOp
  /\ UNCHANGED <<envVars, nextInvoke, lock, terminated, monitors, tellIdx,
                 streamVars, timerVars, countVars, lastRun, termRuns,
                 closeCalls, posted, ranEvent>>

\* run(), lines 115-133 with the queue drained: either go round again at once
\* (the mutex is released, the alarm timer cancelled, the next step entered),
\* or arm the alarm if the VM asked for a later invocation; the mutex is still
\* held after the arming.  A deadline already in the past makes the wait
\* expire as soon as it is set.
afterDrain(i) ==
  /\ Live /\ pc[i] = "drain" /\ queue[i] = <<>>
  /\ IF nextInvoke[i] = "now"
       THEN /\ pc' = [pc EXCEPT ![i] = "running"]
            /\ lock' = [lock EXCEPT ![i] = FALSE]
            /\ alarmPending' = [alarmPending EXCEPT ![i] = FALSE]
            /\ EnterStep(i)
            /\ UNCHANGED alarmQueued
       ELSE /\ pc' = [pc EXCEPT ![i] = "prewait"]
            /\ UNCHANGED <<lock, preemptPending, ranEvent>>
            /\ IF nextInvoke[i] = "laterPast"
                 THEN /\ alarmQueued[i] < MaxBacklog
                      /\ alarmQueued' = [alarmQueued EXCEPT ![i] = @ + 1]
                      /\ UNCHANGED alarmPending
                 ELSE /\ alarmPending' = [alarmPending EXCEPT ![i] =
                                             nextInvoke[i] = "later"]
                      /\ UNCHANGED alarmQueued
  /\ lastOp' = NoOp
  /\ UNCHANGED <<envVars, nextInvoke, queue, terminated, work, monitors, tellIdx,
                 streamVars, preemptQueued, countVars, lastRun, termRuns, closeCalls, posted,
                 workDeletes>>

\* run(), line 128: _conditionWorkToDoInVM.wait(lock) releases the mutex and
\* blocks, in one step.
wait(i) ==
  /\ Live /\ pc[i] = "prewait"
  /\ pc' = [pc EXCEPT ![i] = "waiting"]
  /\ lock' = [lock EXCEPT ![i] = FALSE]
  /\ lastOp' = NoOp
  /\ UNCHANGED <<envVars, nextInvoke, queue, terminated, work, monitors, tellIdx,
                 streamVars, timerVars, countVars, ghostVars>>

\* run(), lines 128-133 and 78-87: the notified thread takes the mutex back,
\* leaves the block, cancels the alarm timer and enters the next step.
wake(i) ==
  /\ Live /\ pc[i] = "woken" /\ ~lock[i]
  /\ pc' = [pc EXCEPT ![i] = "running"]
  /\ alarmPending' = [alarmPending EXCEPT ![i] = FALSE]
  /\ EnterStep(i)
  /\ lastOp' = NoOp
  /\ UNCHANGED <<envVars, nextInvoke, lock, queue, terminated, work, monitors,
                 tellIdx, streamVars, preemptQueued, alarmQueued,
                 countVars, lastRun, termRuns, closeCalls, posted,
                 workDeletes>>

\* ------------------------------------------------ the io_service thread
\* A wait of the alarm timer expires: its handler is queued with no error.
alarmExpire(i) ==
  /\ Live /\ ~ioReturned
  /\ alarmPending[i] /\ alarmQueued[i] < MaxBacklog
  /\ alarmPending' = [alarmPending EXCEPT ![i] = FALSE]
  /\ alarmQueued' = [alarmQueued EXCEPT ![i] = @ + 1]
  /\ lastOp' = NoOp
  /\ UNCHANGED <<envVars, loopVars, streamVars, preemptPending, preemptQueued,
                 countVars, ghostVars>>

\* A mutant of AlarmNeedsLock: the handler notifies without the mutex.
AlarmNeedsNoLock(i) == TRUE

\* The alarm handler takes the queue mutex before it notifies.
AlarmNeedsLock(i) == ~lock[i]

\* run(), lines 120-125: the alarm handler.
alarmHandler(i) ==
  /\ Live /\ ~ioReturned
  /\ alarmQueued[i] > 0 /\ AlarmNeedsLock(i)
  /\ alarmQueued' = [alarmQueued EXCEPT ![i] = @ - 1]
  /\ pc' = [pc EXCEPT ![i] = Notified(i)]
  /\ lastOp' = NoOp
  /\ UNCHANGED <<envVars, nextInvoke, lock, queue, terminated, work, monitors,
                 tellIdx, streamVars, preemptPending, preemptQueued, alarmPending,
                 countVars, ghostVars>>

\* A wait of the preemption timer expires: its handler is queued with no error.
preemptExpire(i) ==
  /\ Live /\ ~ioReturned
  /\ preemptPending[i] /\ preemptQueued[i] < MaxBacklog
  /\ preemptPending' = [preemptPending EXCEPT ![i] = FALSE]
  /\ preemptQueued' = [preemptQueued EXCEPT ![i] = @ + 1]
  /\ lastOp' = NoOp
  /\ UNCHANGED <<envVars, loopVars, streamVars, alarmPending, alarmQueued,
                 countVars, ghostVars>>

\* onPreemptionTimerExpire with no error: request preemption and wait again.
onPreemptionTimerExpire(i) ==
  /\ Live /\ ~ioReturned
  /\ preemptQueued[i] > 0
  /\ preemptQueued' = [preemptQueued EXCEPT ![i] = @ - 1]
  /\ preemptPending' = [preemptPending EXCEPT ![i] = TRUE]
  /\ lastOp' = NoOp
  /\ UNCHANGED <<envVars, loopVars, streamVars, alarmPending, alarmQueued,
                 countVars, ghostVars>>

\* What keeps io_service.run() from returning.
IOBusy ==
  \E i \in Created :
    work[i] \/ preemptPending[i] \/ alarmPending[i]
    \/ preemptQueued[i] > 0 \/ alarmQueued[i] > 0

\* runIO(): io_service.run() returns when nothing is left to wait for.
runIOReturns ==
  /\ Live /\ ~ioReturned /\ nextVMIdentifier > 1
  /\ ~IOBusy
  /\ ioReturned' = TRUE
  /\ lastOp' = NoOp
  /\ UNCHANGED <<nextVMIdentifier, aliveVMs, vms, exitCode, loopVars, streamVars,
                 timerVars, countVars, ghostVars>>

\* ------------------------------------- calls made by a running program
\* getStream(): the second call raises, the first hands out the head.
getStream(i) ==
  /\ Live /\ pc[i] = "running"
  /\ lastOp' = [NoOp EXCEPT !.op = "getStream", !.vm = i,
                             !.raised = streamAsked(i)]
  /\ IF streamAsked(i)
       THEN UNCHANGED <<asyncIONodeCount, headOfStream>>
       ELSE /\ asyncIONodeCount' = [asyncIONodeCount EXCEPT ![i] = @ + 1]
            /\ headOfStream' = [headOfStream EXCEPT ![i] = FALSE]
  /\ UNCHANGED <<envVars, loopVars, stream, cells, streamNil, timerVars,
                 countVars, lastRun, termRuns, closeCalls, posted, workDeletes, ranEvent>>

\* closeStream() called by the program.
closeStream(i) ==
  /\ Live /\ pc[i] = "running"
  /\ lastOp' = [NoOp EXCEPT !.op = "closeStream", !.vm = i]
  /\ IF CloseEffective(i)
       THEN /\ asyncIONodeCount' = [asyncIONodeCount EXCEPT ![i] = @ - 1]
            /\ stream' = [stream EXCEPT ![i] = FALSE]
            /\ streamNil' = [streamNil EXCEPT ![i] = TRUE]
       ELSE UNCHANGED <<asyncIONodeCount, stream, streamNil>>
  /\ UNCHANGED <<envVars, loopVars, headOfStream, cells, timerVars, countVars,
                 lastRun, termRuns, closeCalls, posted, workDeletes, ranEvent>>

\* sendToVMPort(vm, to, value) called by the program of VM i.
sendToVMPort(i, to, v) ==
  /\ Live /\ pc[i] = "running" /\ to \in Created
  /\ IF portClosed(to)
       THEN UNCHANGED <<queue, pc, nSends>>
       ELSE /\ nSends < MaxSends /\ CanPost(to)
            /\ nSends' = nSends + 1
            /\ queue' = [queue EXCEPT ![to] =
                           PostedQueue(to, BufEvent(Encode(v), v, i))]
            /\ pc' = [pc EXCEPT ![to] = Notified(to)]
  /\ lastOp' = NoOp
  /\ UNCHANGED <<envVars, nextInvoke, lock, terminated, work, monitors, tellIdx,
                 streamVars, timerVars, kills, nMonitors, lastKill, lastRun, termRuns,
                 closeCalls, posted, workDeletes, ranEvent>>

\* A mutant of ExitsOnKill: the count is tested before it is decremented.
ExitsOnKillPostDecrement == aliveVMs = 0

\* killVM(), line 357: --_aliveVMs == 0.
ExitsOnKill == aliveVMs - 1 = 0

\* killVM(vm, exitCode) called by the program of VM i on VM t;
\* requestTermination posts the event that calls terminate().
killVM(i, t, code) ==
  /\ Live /\ pc[i] = "running" /\ t \in Created
  /\ IF isRunning(t)
       THEN /\ nKills < MaxKills /\ CanPost(t)
            /\ kills' = [kills EXCEPT ![t] = @ + 1]
            /\ lastKill' = code
            /\ queue' = [queue EXCEPT ![t] = PostedQueue(t, TermEvent)]
            /\ pc' = [pc EXCEPT ![t] = Notified(t)]
            /\ aliveVMs' = aliveVMs - 1
            /\ exitCode' = IF ExitsOnKill THEN code ELSE exitCode
       ELSE UNCHANGED <<queue, pc, aliveVMs, exitCode, kills, lastKill>>
  /\ lastOp' = NoOp
  /\ UNCHANGED <<nextVMIdentifier, vms, ioReturned, nextInvoke, lock, terminated,
                 work, monitors, tellIdx, streamVars, timerVars, nSends, nMonitors,
                 lastRun, termRuns, closeCalls, posted, workDeletes, ranEvent>>

\* addMonitor: the program of VM i registers its VM as a monitor of VM t;
\* _monitorsMutex is held by t while it tells its monitors.
addMonitor(i, t) ==
  /\ Live /\ pc[i] = "running" /\ t \in Created
  /\ nMonitors < MaxMonitors
  /\ pc[t] \notin {"tellDrain", "tellExit"}
  /\ nMonitors' = nMonitors + 1
  /\ monitors' = [monitors EXCEPT ![t] = Append(@, i)]
  /\ lastOp' = NoOp
  /\ UNCHANGED <<envVars, pc, nextInvoke, lock, queue, terminated, work, tellIdx,
                 streamVars, timerVars, nSends, kills, lastKill, lastRun, termRuns,
                 closeCalls, posted, workDeletes, ranEvent>>

\* A mutant of FindVM: only the front of the collection is looked at.
FindVMFrontOnly(k, identifier) ==
  IF vms # <<>> /\ vms[1] = identifier THEN vms[1] ELSE 0

\* getVM(), lines 336-339: the scan of vms from position k; the VM found, or
\* 0 if the scan reaches the end.
RECURSIVE FindVM(_, _)
FindVM(k, identifier) ==
  IF k > Len(vms) THEN 0
  ELSE IF vms[k] = identifier THEN vms[k]
  ELSE FindVM(k + 1, identifier)

\* getVM(vm, identifier) called by the program of VM i: the VM found, or the
\* error "Invalid VM identifier".
getVM(i, identifier) ==
  /\ Live /\ pc[i] = "running"
  /\ LET found == FindVM(1, identifier) IN
       lastOp' = [NoOp EXCEPT !.op = "getVM", !.arg = identifier,
                              !.vm = found, !.raised = (found = 0)]
  /\ UNCHANGED <<envVars, loopVars, streamVars, timerVars, countVars, ghostVars>>

\* listVMs(), lines 346-350: every VM that isRunning() is consed in front of
\* the list built so far, vms being walked from its front.
RECURSIVE ListFrom(_, _)
ListFrom(k, list) ==
  IF k > Len(vms) THEN list
  ELSE ListFrom(k + 1, IF isRunning(vms[k]) THEN <<vms[k]>> \o list ELSE list)

\* listVMs(vm) called by the program of VM i.
listVMs(i) ==
  /\ Live /\ pc[i] = "running"
  /\ lastOp' = [NoOp EXCEPT !.op = "listVMs", !.vm = i,
                            !.list = ListFrom(1, <<>>)]
  /\ UNCHANGED <<envVars, loopVars, streamVars, timerVars, countVars, ghostVars>>

\* ------------------------------------------------------------- Next
VMStep(i) ==
  \/ startVM(i) \/ startFails(i)
  \/ drainOne(i) \/ afterDrain(i)
  \/ wait(i) \/ wake(i)
  \/ terminateAtExit(i) \/ tellOne(i) \/ terminateEnd(i)

IOStep(i) ==
  \/ alarmExpire(i) \/ alarmHandler(i)
  \/ preemptExpire(i) \/ onPreemptionTimerExpire(i)

KillStep(i) ==
  \/ getStream(i) \/ closeStream(i)
  \/ \E t \in Ids, code \in ExitCodes : killVM(i, t, code)
  \/ \E t \in Ids : addMonitor(i, t)

KillNext ==
  \/ addVM
  \/ \E i \in Ids : VMStep(i)
  \/ \E i \in Ids, d \in {"never", "now"} : endStep(i, d)
  \/ \E i \in Ids : KillStep(i)

KillSpec == Init /\ [][KillNext]_vars

MsgStep(i) ==
  \/ getStream(i) \/ closeStream(i)
  \/ \E to \in Ids, v \in Values : sendToVMPort(i, to, v)
  \/ \E t \in Ids : nMonitors < MsgMonitors /\ addMonitor(i, t)

MsgNext ==
  \/ addVM
  \/ \E i \in Ids : VMStep(i)
  \/ \E i \in Ids, d \in {"never", "now"} : endStep(i, d)
  \/ \E i \in Ids : MsgStep(i)

MsgSpec == Init /\ [][MsgNext]_vars

TimerVMStep(i) ==
  \/ startVM(i) \/ startFails(i)
  \/ drainOne(i) \/ afterDrain(i)
  \/ wait(i) \/ wake(i)
  \/ terminateAtExit(i) \/ terminateEnd(i)

TimerNext ==
  \/ addVM
  \/ \E i \in Ids : TimerVMStep(i)
  \/ \E i \in Ids, d \in Directives : endStep(i, d)
  \/ \E i \in Ids : IOStep(i)
  \/ \E i \in Ids : getStream(i) \/ closeStream(i)
  \/ \E i, t \in Ids, code \in ExitCodes : killVM(i, t, code)
  \/ runIOReturns

TimerSpec == Init /\ [][TimerNext]_vars

\* The io_service thread runs, so a wait that is due expires and a queued
\* handler is executed; a VM's thread runs, so it reaches its wait and leaves
\* it once notified.
TimerFairness ==
  \A i \in Ids :
    /\ WF_vars(alarmExpire(i)) /\ WF_vars(alarmHandler(i))
    /\ WF_vars(wait(i)) /\ WF_vars(wake(i))

\* The VMs and the io_service thread without the calls on streams, under
\* that fairness.
AlarmNext ==
  \/ addVM
  \/ \E i \in Ids : TimerVMStep(i)
  \/ \E i \in Ids, d \in Directives : endStep(i, d)
  \/ \E i \in Ids : IOStep(i)
  \/ \E i, t \in Ids, code \in ExitCodes : killVM(i, t, code)

AlarmSpec == Init /\ [][AlarmNext]_vars /\ TimerFairness

\* The VMs and the calls of their programs on the registry.
RegistryStep(i) ==
  \/ \E identifier \in 0..(MaxVMs + 1) : getVM(i, identifier)
  \/ listVMs(i)
  \/ getStream(i)
  \/ \E t \in Ids, code \in ExitCodes : killVM(i, t, code)

RegistryNext ==
  \/ addVM
  \/ \E i \in Ids : TimerVMStep(i)
  \/ \E i \in Ids, d \in {"never", "now"} : endStep(i, d)
  \/ \E i \in Ids : RegistryStep(i)

RegistrySpec == Init /\ [][RegistryNext]_vars

\* The VMs with their timers and the messages their programs send.
StepNext ==
  \/ addVM
  \/ \E i \in Ids : TimerVMStep(i)
  \/ \E i \in Ids, d \in Directives : endStep(i, d)
  \/ \E i \in Ids : IOStep(i)
  \/ \E i, to \in Ids, v \in Values : sendToVMPort(i, to, v)

StepSpec == Init /\ [][StepNext]_vars

\* ------------------------------------------------------------ helpers
Tells == {"tellDrain", "tellExit"}

\* Thread i is inside postVMEvent, waiting for the queue mutex of a monitor
\* whose own thread holds it.
Blocked(i) ==
  /\ pc[i] \in Tells
  /\ tellIdx[i] <= Len(monitors[i])
  /\ lock[monitors[i][tellIdx[i]]]
WaitsOn(i) == monitors[i][tellIdx[i]]

\* Every thread of D waits for a mutex held by a thread of D: none of them
\* can ever take another step.
DeadlockSet(D) == D # {} /\ \A i \in D : Blocked(i) /\ WaitsOn(i) \in D
Deadlocked(i) == \E D \in SUBSET Created : i \in D /\ DeadlockSet(D)

\* The number of ("terminated", c) entries in a's stream, and the number of
\* times a is registered as a monitor of c.
TupleCount(a, c) ==
  Cardinality({k \in DOMAIN cells[a] : cells[a][k].val = TerminatedTuple(c)})
Registered(a, c) ==
  Cardinality({k \in DOMAIN monitors[c] : monitors[c][k] = a})

\* The stamps of the stream's cells increase: the cells were appended in the
\* order in which their events were pushed.
CellsInPushOrder(i) ==
  \A j, k \in DOMAIN cells[i] : j < k => cells[i][j].seq < cells[i][k].seq

\* ------------------------------------------------------------- claims

\* C1: each VM runs the body of terminate() at most once, and once it has
\* begun, each side effect (the closeStream call, the "terminated" events to
\* the monitors, the delete of _work) is executed exactly once: never twice,
\* and never left undone for ever.
C1_TerminateExactlyOnce ==
  \A i \in Created :
    /\ termRuns[i] <= 1 /\ closeCalls[i] <= 1 /\ workDeletes[i] <= 1
    /\ posted[i] <= Len(monitors[i])
    /\ (pc[i] = "done" => termRuns[i] = 1 /\ closeCalls[i] = 1 /\ workDeletes[i] = 1)
    /\ (termRuns[i] = 1 /\ workDeletes[i] = 0 => ~Deadlocked(i))

\* The part of C1 that the code keeps: nothing is executed twice, and a
\* thread that has left terminate() has executed each side effect once.
TerminateAtMostOnce ==
  \A i \in Created :
    /\ termRuns[i] <= 1 /\ closeCalls[i] <= 1 /\ workDeletes[i] <= 1
    /\ posted[i] <= Len(monitors[i])
    /\ (pc[i] = "done" => termRuns[i] = 1 /\ closeCalls[i] = 1 /\ workDeletes[i] = 1)

\* C3: no thread waits for another VM's queue mutex while it holds its own
\* in a way that can never end: no reachable state is a deadlock among the
\* VM threads, whatever the monitor relation and the kills.
C3_NoDeadlock == \A i \in Created : ~Deadlocked(i)

\* C4 as stated: when VM a, registered once as a monitor of c, has run the
\* "terminated" event that c pushed while a was running with its stream
\* open, a's stream holds exactly one ("terminated", c) entry.
C4_NotifiedExactlyOnce ==
  \A a, c \in Created :
    (Registered(a, c) = 1 /\ lastRun[a].kind = "dead" /\ lastRun[a].dead = c
       /\ lastRun[a].ok)
      => TupleCount(a, c) = 1

\* C4 as amended: a's stream holds at most one ("terminated", c) entry per
\* registration; the event c pushed puts one there when a's thread runs it
\* with the stream still open; the entries stand in the order of a's queue.
C4_NotifiedAtMostOnce ==
  \A a, c \in Created :
    /\ TupleCount(a, c) <= Registered(a, c)
    /\ (lastRun[a].kind = "dead" /\ lastRun[a].dead = c /\ ~portClosed(a))
         => \E k \in DOMAIN cells[a] :
              /\ cells[a][k].val = TerminatedTuple(c)
              /\ cells[a][k].seq = lastRun[a].seq
    /\ CellsInPushOrder(a)
    /\ \A k \in DOMAIN cells[a], q \in DOMAIN queue[a] :
         cells[a][k].seq <= queue[a][q].seq

C4_Witness ==
  \E a, c \in Created :
    /\ a # c /\ Registered(a, c) = 1 /\ TupleCount(a, c) = 1
    /\ Len(cells[a]) = 1 /\ pc[c] = "done"

\* C7: as long as every killVM so far found its VM running and no VM was
\* killed twice, the process has exited exactly when all the VMs created
\* have been killed, and then with the code given to the last killVM.
DistinctKills == \A t \in Ids : kills[t] <= 1
C7_ExitOnLastKill ==
  DistinctKills =>
    /\ (exitCode # NoExit) <=> (nKills > 0 /\ nKills = Cardinality(Created))
    /\ (exitCode # NoExit => exitCode = lastKill)

\* The process has exited on the second of two kills while a killed VM still
\* has its termination request queued and has not terminated.
C7_Witness ==
  /\ exitCode # NoExit /\ DistinctKills /\ nKills = 2
  /\ \E t \in Created : queue[t] # <<>> /\ ~terminated[t]

\* The last event VM i ran was a closure of kind k, and it left a cell with
\* value v in the stream / left no cell there.
RanInto(i, k, v) ==
  /\ lastRun[i].kind = k
  /\ \E c \in DOMAIN cells[i] :
       cells[i][c].seq = lastRun[i].seq /\ cells[i][c].val = v
RanAndDropped(i, k) ==
  /\ lastRun[i].kind = k
  /\ \A c \in DOMAIN cells[i] : cells[i][c].seq # lastRun[i].seq

\* C2 as stated: when VM b has run the delivery job of a sendToVMPort(b, v)
\* made while b had not terminated and its stream was open, b's stream
\* contains v, whatever happened between the send and the drain.
C2_SentIsDelivered ==
  \A b \in Created :
    (lastRun[b].kind = "buf" /\ lastRun[b].ok)
      => RanInto(b, "buf", IntVal(lastRun[b].sent))

\* C2 as amended: the job appends a value equal to v when b runs it with its
\* stream still open, and nothing when the stream was closed in between.
C2_DeliveredWhileOpen ==
  \A b \in Created :
    lastRun[b].kind = "buf" =>
      /\ lastRun[b].ok
      /\ lastRun[b].buf = Encode(lastRun[b].sent)
      /\ (~portClosed(b) => RanInto(b, "buf", IntVal(lastRun[b].sent)))
      /\ (RanAndDropped(b, "buf") => portClosed(b))

\* A message from another VM has arrived, with the value that was sent.
C2_Witness ==
  \E b \in Created :
    /\ RanInto(b, "buf", IntVal(1))
    /\ lastRun[b].from # b /\ lastRun[b].sent = 1

\* C5: the first getStream() hands out the head, sets the asked flag and adds
\* one to _asyncIONodeCount; every later one (also after closeStream) raises
\* and changes nothing; a stream that was asked for and is not closed takes
\* every value that is appended.
C5_StreamAskedOnce ==
  [][\A i \in Created :
       /\ (lastOp'.op = "getStream" /\ lastOp'.vm = i) =>
            IF headOfStream[i]
              THEN /\ ~lastOp'.raised
                   /\ ~headOfStream'[i]
                   /\ asyncIONodeCount'[i] = asyncIONodeCount[i] + 1
                   /\ cells'[i] = cells[i] /\ stream'[i] = stream[i]
              ELSE /\ lastOp'.raised
                   /\ ~headOfStream'[i]
                   /\ asyncIONodeCount'[i] = asyncIONodeCount[i]
                   /\ cells'[i] = cells[i] /\ stream'[i] = stream[i]
                   /\ streamNil'[i] = streamNil[i]
       /\ (~headOfStream[i] /\ stream[i] /\ lastRun'[i] # lastRun[i]
             /\ lastRun'[i].kind \in {"buf", "dead"}) =>
            /\ Len(cells'[i]) = Len(cells[i]) + 1
            /\ SubSeq(cells'[i], 1, Len(cells[i])) = cells[i]
            /\ cells'[i][Len(cells'[i])].seq = lastRun'[i].seq
    ]_vars

\* A second getStream() has just raised on a stream that was closed after it
\* had received a value.
C5_Witness ==
  /\ lastOp.op = "getStream" /\ lastOp.raised
  /\ \E i \in Created :
       lastOp.vm = i /\ streamNil[i] /\ cells[i] # <<>>
         /\ asyncIONodeCount[i] = 0

\* C6: running an append (of a message buffer or of a native tuple) on a
\* closed stream changes neither the cells, nor the tail, nor
\* _asyncIONodeCount, and raises nothing.
C6_AppendOnClosedIsNoOp ==
  [][\A i \in Created :
       (~stream[i] /\ lastRun'[i] # lastRun[i]
          /\ lastRun'[i].kind \in {"buf", "dead"}) =>
         /\ cells'[i] = cells[i]
         /\ stream'[i] = stream[i] /\ streamNil'[i] = streamNil[i]
         /\ asyncIONodeCount'[i] = asyncIONodeCount[i]
         /\ headOfStream'[i] = headOfStream[i]
         /\ ~lastOp'.raised
    ]_vars

\* One VM has dropped a message buffer and another one a native tuple, each
\* on its closed stream.
C6_Witness ==
  \E i, j \in Created :
    /\ portClosed(i) /\ RanAndDropped(i, "buf")
    /\ portClosed(j) /\ RanAndDropped(j, "dead")

\* C8: a VM runs its events in the order in which they were pushed (nothing
\* older than the event it ran last is still queued, and the queue holds the
\* events in push order), so two messages of one sender stand in the target's
\* stream in the order in which they were sent.
C8_Fifo ==
  \A i \in Created :
    /\ \A j, k \in DOMAIN queue[i] : j < k => queue[i][j].seq < queue[i][k].seq
    /\ \A k \in DOMAIN queue[i] :
         \/ queue[i][k].seq > lastRun[i].seq
         \/ (pc[i] = "tellDrain" /\ k = 1 /\ queue[i][k] = lastRun[i])
    /\ \A j, k \in DOMAIN cells[i] :
         (j < k /\ cells[i][j].from # 0 /\ cells[i][j].from = cells[i][k].from)
           => cells[i][j].seq < cells[i][k].seq

\* Two messages of one sender, with different values, stand in another VM's
\* stream.
C8_Witness ==
  \E i \in Created :
    /\ Len(cells[i]) = 2
    /\ cells[i][1].from = cells[i][2].from /\ cells[i][1].from \notin {0, i}
    /\ cells[i][1].val # cells[i][2].val

\* VM i is about to wait, or waits, after a step that asked to be invoked
\* again later.
AwaitsAlarm(i) ==
  /\ pc[i] \in {"prewait", "waiting"}
  /\ nextInvoke[i] \in {"later", "laterPast"}

\* C9: a VM that waits after a step that returned recInvokeAgainLater still
\* has its alarm to come (an outstanding wait or a handler that has not run),
\* also when the deadline had passed at arming time: the notification is not
\* given before the thread waits.  So the VM is woken and steps again (or the
\* process has exited).
C9_AlarmWakeNotLost ==
  /\ [](\A i \in Created :
          AwaitsAlarm(i) => (alarmPending[i] \/ alarmQueued[i] > 0))
  /\ \A i \in Ids :
       (Live /\ AwaitsAlarm(i)) ~> (pc[i] = "running" \/ ~Live)

\* A VM whose deadline had passed at arming time has been woken by its alarm:
\* nothing was pushed on its queue.
C9_Witness ==
  \E i \in Created :
    /\ pc[i] = "woken" /\ nextInvoke[i] = "laterPast"
    /\ queue[i] = <<>> /\ alarmQueued[i] = 0 /\ ~alarmPending[i]

\* C10: once every VM that was created has terminated and deleted its _work,
\* no wait of a preemption or alarm timer is outstanding on the io_service.
C10_NoWaitAfterLastTermination ==
  (Created # {} /\ \A i \in Created : pc[i] = "done")
    => \A i \in Created :
         ~work[i] /\ ~preemptPending[i] /\ ~alarmPending[i]

\* The elements of a sequence.
Range(f) == {f[k] : k \in DOMAIN f}

\* C11: getVM raises exactly for an identifier that addVM never handed out;
\* otherwise it returns the VM with that identifier, terminated or not.  The
\* identifiers are 1, 2, 3, ... in creation order and no VM leaves vms.
C11_GetVMFindsAllocated ==
  /\ Len(vms) = nextVMIdentifier - 1
  /\ \A k \in DOMAIN vms : vms[k] = Len(vms) - k + 1
  /\ lastOp.op = "getVM" =>
       /\ lastOp.raised <=> lastOp.arg \notin Created
       /\ ~lastOp.raised => lastOp.vm = lastOp.arg

\* getVM has just returned the oldest of two VMs, which has terminated.
C11_Witness ==
  /\ lastOp.op = "getVM" /\ ~lastOp.raised
  /\ lastOp.vm = 1 /\ pc[1] = "done" /\ Len(vms) = 2

\* C12: a VM whose starter reported failure never enters run(): from then on
\* its thread is at rest, none of its events is run, terminate() does nothing
\* on it; it stays not terminated, keeps its _work, and listVMs lists it.
C12_FailedStartStaysOutside ==
  /\ [](\A i \in Created :
          pc[i] = "failed" =>
            /\ ~terminated[i] /\ work[i]
            /\ lastRun[i] = NoEvent
            /\ termRuns[i] = 0 /\ closeCalls[i] = 0 /\ posted[i] = 0
            /\ workDeletes[i] = 0
            /\ ~preemptPending[i]
            /\ (lastOp.op = "listVMs" => i \in Range(lastOp.list)))
  /\ [][\A i \in Created :
          pc[i] = "failed" =>
            /\ pc'[i] = "failed"
            /\ Len(queue'[i]) >= Len(queue[i])
            /\ SubSeq(queue'[i], 1, Len(queue[i])) = queue[i]
       ]_vars

\* listVMs has just listed a VM that failed to start and has a termination
\* request on its queue.
C12_Witness ==
  /\ lastOp.op = "listVMs"
  /\ \E i \in Created :
       pc[i] = "failed" /\ queue[i] # <<>> /\ i \in Range(lastOp.list)

\* C13: a VM that has decided to wait, or waits, has an empty queue and ran
\* no event in this iteration of its loop; after an event nextInvoke is "now",
\* and the alarm is not armed in an iteration in which an event ran.
C13_DrainedWorkForcesStep ==
  \A i \in Created :
    /\ pc[i] \in {"prewait", "waiting"} => queue[i] = <<>> /\ ~ranEvent[i]
    /\ ranEvent[i] => nextInvoke[i] = "now" /\ ~alarmPending[i]

\* A VM has run a message event, emptied its queue and is about to step
\* again.
C13_Witness ==
  \E i \in Created :
    /\ pc[i] = "drain" /\ ranEvent[i] /\ queue[i] = <<>>
    /\ lastRun[i].kind = "buf"

\* VM i's stream has been asked for and is not closed.
ClaimedOpen(i) == ~headOfStream[i] /\ stream[i]

\* C14: a VM leaves its loop only at the test after a step, and only if it
\* has terminated already or the step returned recNeverInvokeAgain with
\* _asyncIONodeCount 0 and an empty queue; terminate() runs only after the
\* loop was left or from a drained termination request.  So a VM that
\* terminates without a drained request has no claimed open stream, and had
\* an empty queue when it decided.
C14_LeavesOnlyWhenNothingLeft ==
  [][\A i \in Created :
       /\ (pc[i] # "exit" /\ pc'[i] = "exit") =>
            /\ pc[i] = "running"
            /\ \/ terminated[i]
               \/ /\ nextInvoke'[i] = "never"
                  /\ asyncIONodeCount[i] = 0 /\ ~ClaimedOpen(i)
                  /\ queue[i] = <<>>
       /\ (~terminated[i] /\ terminated'[i]) =>
            \/ pc[i] = "exit" /\ ~ClaimedOpen(i)
            \/ pc[i] = "drain" /\ queue[i] # <<>> /\ Head(queue[i]).kind = "term"
    ]_vars

\* One VM, never asked to terminate, has closed the stream it had claimed and
\* then terminated by itself, while another one waits with its claimed stream
\* open after a step that returned recNeverInvokeAgain.
C14_Witness ==
  \E i, j \in Created :
    /\ pc[i] = "done" /\ kills[i] = 0 /\ streamNil[i]
    /\ pc[j] = "waiting" /\ nextInvoke[j] = "never" /\ ClaimedOpen(j)

\* C15: a VM that has run terminate() to its end takes no further step of
\* its program and has no wait of its preemption or alarm timer outstanding.
C15_TerminatedIsAbsorbing ==
  \A i \in Created :
    (terminated[i] /\ workDeletes[i] = 1) =>
      /\ pc[i] \notin {"running", "prewait", "waiting", "woken"}
      /\ ~preemptPending[i] /\ ~alarmPending[i]

\* C16: the preemption timer has an outstanding wait only while vm->run() is
\* in progress: none while the thread tests and drains its queue, waits, or
\* has left its loop.
C16_PreemptionOnlyWhileStepping ==
  \A i \in Created : preemptPending[i] => pc[i] = "running"

\* C17: an event pushed on the queue of a VM that was in its loop is run in
\* the end: no event stays queued behind one that the VM's thread can never
\* finish running.
C17_QueuedEventIsRun ==
  \A i \in Created : Deadlocked(i) => Len(queue[i]) <= 1

\* C18: after terminate() the VM's stream is closed, claimed or not.
C18_ClosedAfterTermination ==
  \A i \in Created : (terminated[i] /\ workDeletes[i] = 1) => portClosed(i)

\* C19: _aliveVMs is the number of created VMs that have neither terminated
\* nor a termination request posted.
C19_AliveCount ==
  aliveVMs = Cardinality({i \in Created : ~terminated[i] /\ kills[i] = 0})

\* C20: _asyncIONodeCount (of which the model holds the stream's part only)
\* is 1 while the stream is claimed and open and 0 otherwise, the tail is
\* bound to nil exactly when a claimed stream was closed, and a closed stream
\* stays closed.
C20_StreamCountsOnce ==
  /\ [](\A i \in Created :
          /\ asyncIONodeCount[i] = IF ClaimedOpen(i) THEN 1 ELSE 0
          /\ streamNil[i] <=> ~stream[i]
          /\ ~stream[i] => ~headOfStream[i])
  /\ [][\A i \in Created :
          /\ ~stream[i] => ~stream'[i]
          /\ ~headOfStream[i] => ~headOfStream'[i]
          /\ asyncIONodeCount'[i] < asyncIONodeCount[i] =>
               ClaimedOpen(i) /\ ~stream'[i]
                 /\ asyncIONodeCount'[i] = asyncIONodeCount[i] - 1
       ]_vars

\* A VM has claimed its stream, received a value, closed the stream and then
\* terminated by itself: the closeStream() of terminate() found it closed.
C20_Witness ==
  \E i \in Created :
    /\ pc[i] = "done" /\ kills[i] = 0 /\ closeCalls[i] = 1
    /\ streamNil[i] /\ cells[i] # <<>> /\ asyncIONodeCount[i] = 0

====
